---- MODULE Spec2Model ----
(***************************************************************************)
(* Coordinated multi-view analytics of the RAG diagnostics dashboard:      *)
(* the OverviewDashboard controller with the highlight/filter toggle, the  *)
(* QualityScatterplot, DistributionHistograms and DocumentUsageChart views *)
(* and the chunk fingerprint aggregation.                                  *)
(*                                                                         *)
(* Scores are JavaScript numbers in [0,1]; the model keeps them as         *)
(* integers in hundredths (One = 1.00).  Pixel positions are kept in       *)
(* hundredths of a pixel so that the linear scales stay exact.             *)
(***************************************************************************)
EXTENDS Integers, Sequences, FiniteSets, TLC

VARIABLES
  data,            \* OverviewDashboard prop: the flat VizDataPoint list
  ctl,             \* OverviewDashboard useState: selectedRunIds, selectedChunk, viewMode, scoreFilter
  sortBy,          \* OverviewDashboard useState sortBy
  severityWeight,  \* OverviewDashboard useState severityWeight
  activeChunk,     \* DocumentUsageChart useState activeChunk (view-local)
  scatter,         \* what the QualityScatterplot effect last drew (marks and handler closures)
  hist,            \* what the DistributionHistograms effect last drew
  navigatedTo,     \* window.location.href assignment (question id) or NoNav
  containerWidth,  \* DocumentUsageChart useState containerWidth (pixels, 0 before measuring)
  lastEvent,       \* history: the user event that produced this state
  bucket,          \* DashboardQuestionList useState bucket: {questionId, runIds}
  bucketMessage,   \* DashboardQuestionList useState bucketMessage
  bucketHistory    \* history: the bucket before the last call, and for each run id the
                   \* questionId argument of the call that put it into the bucket

bucketVars == <<bucket, bucketMessage, bucketHistory>>

vars ==
  <<data, ctl, sortBy, severityWeight, activeChunk, scatter, hist, navigatedTo, containerWidth,
    lastEvent, bucketVars>>

----------------------------------------------------------------------------
(* Bounds and program constants *)

MaxPoints == 3          \* longest point list of the controller specification
MaxAggPoints == 2       \* longest point list of the aggregation specification
MaxChunkCount == 43     \* largest chunkCount the segment layout is compared against
MaxBucketRuns == 3      \* number of run ids offered to the comparison bucket

One == 100              \* the score 1.0, upper end of every scale domain
BinStep == 10           \* d3.range(0, 1.1, 0.1): bin width 0.1
POOR_THRESHOLD == 40    \* 0.4
MIN_SEGMENT_WIDTH == 6  \* pixels
DefaultSeverityWeight == 10
MAX_COMPARISON_RUNS == 2
PlotWidth == 684        \* 800 - margin.left 56 - margin.right 60
PlotHeight == 404       \* 460 - margin.top 12 - margin.bottom 44

NoNav == "none"
NoKey == <<>>           \* chunkKey null (whole-document selection)
Metrics == {"llm", "similarity"}
SortKeys == {"severity", "flags", "poor", "retrieved"}
Weights == {5, 10}      \* positions of the severity weight slider explored

----------------------------------------------------------------------------
(* Generic helpers *)

Range(s) == {s[i] : i \in 1..Len(s)}

Max2(a, b) == IF a >= b THEN a ELSE b

Min2(a, b) == IF a <= b THEN a ELSE b

----------------------------------------------------------------------------
(* Input data: VizDataPoint records *)

Doc(t, i, c) == [title |-> t, index |-> i, chunkId |-> c]

NoIndex == -1            \* a retrievedDocs entry without an index field
NoChunkId == "undefined" \* a retrievedDocs entry without a chunkId field

Point(r, q, llm, sim, flags, docs) ==
  [runId |-> r, questionId |-> q, llmScore |-> llm, avgSimilarity |-> sim,
   humanFlags |-> flags, hasRetrievedDocs |-> TRUE, retrievedDocs |-> docs]

\* a point whose retrievedDocs field is absent (undefined)
PointWithoutDocs(r, q, llm, sim, flags) ==
  [runId |-> r, questionId |-> q, llmScore |-> llm, avgSimilarity |-> sim,
   humanFlags |-> flags, hasRetrievedDocs |-> FALSE, retrievedDocs |-> <<>>]

\* Templates of runs the controller specification draws its point lists from.
Catalogue ==
  << [questionId |-> "q1", llmScore |-> 100, avgSimilarity |-> 75, humanFlags |-> 0,
      retrievedDocs |-> <<Doc("A", 0, "c1"), Doc("B", 1, "c3")>>],
     [questionId |-> "q1", llmScore |-> 35,  avgSimilarity |-> 100, humanFlags |-> 1,
      retrievedDocs |-> <<Doc("A", 0, "c1")>>],
     [questionId |-> "q2", llmScore |-> 95,  avgSimilarity |-> 30, humanFlags |-> 0,
      retrievedDocs |-> <<Doc("A", 2, "c2"), Doc("A", 2, "c2")>>],
     [questionId |-> "q2", llmScore |-> 10,  avgSimilarity |-> 80, humanFlags |-> 0,
      retrievedDocs |-> <<>>],
     [questionId |-> "q3", llmScore |-> 50,  avgSimilarity |-> 50, humanFlags |-> 2,
      retrievedDocs |-> <<Doc("B", 1, "c3")>>] >>

\* The list of n runs r1..rn taken from the catalogue starting at offset o (cyclic).
Window(o, n) ==
  [i \in 1..n |->
     LET t == Catalogue[((o + i - 2) % Len(Catalogue)) + 1]
     IN Point(i, t.questionId, t.llmScore, t.avgSimilarity, t.humanFlags, t.retrievedDocs)]

\* catalogue offsets the point lists start at
Offsets == {1, 3}

Datasets == {Window(o, n) : o \in Offsets, n \in 0..MaxPoints}

RunIdsOf(points) == {points[i].runId : i \in 1..Len(points)}

----------------------------------------------------------------------------
(* DocumentUsageChart: chunk fingerprint aggregation (useMemo fingerprints) *)

flagged(point) == point.humanFlags > 0

\* variant: the poor flag without the exclusion of flagged runs
poorLLM_noExclusion(point) == point.llmScore < POOR_THRESHOLD

poorLLM(point) == point.llmScore < POOR_THRESHOLD /\ ~flagged(point)

\* doc.title || "Untitled"
TitleOf(doc) == IF doc.title = "" THEN "Untitled" ELSE doc.title

\* doc.index ?? 0
ChunkIndexOf(doc) == IF doc.index = NoIndex THEN 0 ELSE doc.index

\* `${title}-${chunkIndex}-${doc.chunkId ?? ""}`: the three components of the key
ChunkKey(doc) ==
  <<TitleOf(doc), ChunkIndexOf(doc), IF doc.chunkId = NoChunkId THEN "" ELSE doc.chunkId>>

\* Map.get: position of the entry with the given key in an insertion-ordered map, 0 if absent
DocPos(docMap, title) ==
  IF \E i \in 1..Len(docMap) : docMap[i].title = title
  THEN CHOOSE i \in 1..Len(docMap) : docMap[i].title = title
  ELSE 0

ChunkPos(chunkMap, key) ==
  IF \E i \in 1..Len(chunkMap) : chunkMap[i].key = key
  THEN CHOOSE i \in 1..Len(chunkMap) : chunkMap[i].key = key
  ELSE 0

\* Set.add on an insertion-ordered set kept as a duplicate-free sequence
SetAdd(s, x) == IF x \in Range(s) THEN s ELSE Append(s, x)

NewDocEntry(title) ==
  [title |-> title, chunkMap |-> <<>>, flaggedQuestions |-> {}, poorQuestions |-> {},
   retrievalCount |-> 0, maxIndex |-> -1]

NewChunkEntry(doc) ==
  [key |-> ChunkKey(doc), index |-> ChunkIndexOf(doc), chunkId |-> doc.chunkId,
   occurrences |-> 0, flags |-> 0, poor |-> 0, questionIds |-> {}, runIds |-> <<>>]

\* variant: the chunk keeps its run ids in an array instead of a Set
AccumulateChunk_listsRuns(chunkMap, point, doc) ==
  LET key == ChunkKey(doc)
      ci == ChunkPos(chunkMap, key)
      existingChunk == IF ci = 0 THEN NewChunkEntry(doc) ELSE chunkMap[ci]
      updated == [existingChunk EXCEPT
                    !.occurrences = @ + 1,
                    !.flags = IF flagged(point) THEN @ + 1 ELSE @,
                    !.poor = IF poorLLM(point) THEN @ + 1 ELSE @,
                    !.questionIds = @ \cup {point.questionId},
                    !.runIds = Append(@, point.runId)]
  IN IF ci = 0 THEN Append(chunkMap, updated) ELSE [chunkMap EXCEPT ![ci] = updated]

\* body of point.retrievedDocs.forEach for one (point, doc) pair: the chunk bucket
AccumulateChunk(chunkMap, point, doc) ==
  LET key == ChunkKey(doc)
      ci == ChunkPos(chunkMap, key)
      existingChunk == IF ci = 0 THEN NewChunkEntry(doc) ELSE chunkMap[ci]
      updated == [existingChunk EXCEPT
                    !.occurrences = @ + 1,
                    !.flags = IF flagged(point) THEN @ + 1 ELSE @,
                    !.poor = IF poorLLM(point) THEN @ + 1 ELSE @,
                    !.questionIds = @ \cup {point.questionId},
                    !.runIds = SetAdd(@, point.runId)]
  IN IF ci = 0 THEN Append(chunkMap, updated) ELSE [chunkMap EXCEPT ![ci] = updated]

\* variant: the document counts flagged and poor runs instead of questions
AccumulateDoc_countsRuns(docMap, point, doc) ==
  LET title == TitleOf(doc)
      di == DocPos(docMap, title)
      docEntry == IF di = 0 THEN NewDocEntry(title) ELSE docMap[di]
      updated == [docEntry EXCEPT
                    !.retrievalCount = @ + 1,
                    !.maxIndex = Max2(@, ChunkIndexOf(doc)),
                    !.flaggedQuestions = IF flagged(point) THEN @ \cup {point.runId} ELSE @,
                    !.poorQuestions = IF poorLLM(point) THEN @ \cup {point.runId} ELSE @,
                    !.chunkMap = AccumulateChunk(@, point, doc)]
  IN IF di = 0 THEN Append(docMap, updated) ELSE [docMap EXCEPT ![di] = updated]

\* variant: the document counts one retrieval per first sight of a run in a chunk
AccumulateDoc_countsOncePerRun(docMap, point, doc) ==
  LET title == TitleOf(doc)
      di == DocPos(docMap, title)
      docEntry == IF di = 0 THEN NewDocEntry(title) ELSE docMap[di]
      ci == ChunkPos(docEntry.chunkMap, ChunkKey(doc))
      seen == ci # 0 /\ point.runId \in Range(docEntry.chunkMap[ci].runIds)
      updated == [docEntry EXCEPT
                    !.retrievalCount = IF seen THEN @ ELSE @ + 1,
                    !.maxIndex = Max2(@, ChunkIndexOf(doc)),
                    !.flaggedQuestions = IF flagged(point) THEN @ \cup {point.questionId} ELSE @,
                    !.poorQuestions = IF poorLLM(point) THEN @ \cup {point.questionId} ELSE @,
                    !.chunkMap = AccumulateChunk(@, point, doc)]
  IN IF di = 0 THEN Append(docMap, updated) ELSE [docMap EXCEPT ![di] = updated]

\* body of point.retrievedDocs.forEach for one (point, doc) pair: the document bucket
AccumulateDoc(docMap, point, doc) ==
  LET title == TitleOf(doc)
      di == DocPos(docMap, title)
      docEntry == IF di = 0 THEN NewDocEntry(title) ELSE docMap[di]
      updated == [docEntry EXCEPT
                    !.retrievalCount = @ + 1,
                    !.maxIndex = Max2(@, ChunkIndexOf(doc)),
                    !.flaggedQuestions = IF flagged(point) THEN @ \cup {point.questionId} ELSE @,
                    !.poorQuestions = IF poorLLM(point) THEN @ \cup {point.questionId} ELSE @,
                    !.chunkMap = AccumulateChunk(@, point, doc)]
  IN IF di = 0 THEN Append(docMap, updated) ELSE [docMap EXCEPT ![di] = updated]

RECURSIVE AccumulateDocs(_, _, _)
AccumulateDocs(docMap, point, docs) ==
  IF docs = <<>> THEN docMap
  ELSE AccumulateDocs(AccumulateDoc(docMap, point, Head(docs)), point, Tail(docs))

\* data.forEach((point) => point.retrievedDocs.forEach(...))
RECURSIVE AccumulatePoints(_, _)
AccumulatePoints(docMap, points) ==
  IF points = <<>> THEN docMap
  ELSE AccumulatePoints(AccumulateDocs(docMap, Head(points), Head(points).retrievedDocs),
                        Tail(points))

\* variant: the comparators without their tie-breaks
Compare_noTieBreak(mode, a, b) ==
  CASE mode = "index" -> a.index - b.index
    [] mode = "flags" -> b.humanFlags - a.humanFlags
    [] mode = "poor" -> b.poorLLM - a.poorLLM
    [] mode = "retrieved" -> b.totalRetrievals - a.totalRetrievals
    [] OTHER -> b.severity - a.severity

\* Comparator results as the sort callbacks return them (negative: a first)
Compare(mode, a, b) ==
  CASE mode = "index" -> a.index - b.index
    [] mode = "flags" ->
         IF b.humanFlags # a.humanFlags THEN b.humanFlags - a.humanFlags
         ELSE b.totalRetrievals - a.totalRetrievals
    [] mode = "poor" ->
         IF b.poorLLM # a.poorLLM THEN b.poorLLM - a.poorLLM
         ELSE b.totalRetrievals - a.totalRetrievals
    [] mode = "retrieved" ->
         IF b.totalRetrievals # a.totalRetrievals THEN b.totalRetrievals - a.totalRetrievals
         ELSE b.severity - a.severity
    [] OTHER ->
         IF b.severity # a.severity THEN b.severity - a.severity
         ELSE IF b.humanFlags # a.humanFlags THEN b.humanFlags - a.humanFlags
         ELSE b.totalRetrievals - a.totalRetrievals

\* Array.prototype.sort (stable): x goes before the first element that compares greater
InsertSorted(mode, sorted, x) ==
  LET later == {i \in 1..Len(sorted) : Compare(mode, sorted[i], x) > 0}
      pos == IF later = {} THEN Len(sorted) + 1
             ELSE CHOOSE i \in later : \A j \in later : i <= j
  IN SubSeq(sorted, 1, pos - 1) \o <<x>> \o SubSeq(sorted, pos, Len(sorted))

RECURSIVE StableSort(_, _, _)
StableSort(mode, sorted, rest) ==
  IF rest = <<>> THEN sorted
  ELSE StableSort(mode, InsertSorted(mode, sorted, Head(rest)), Tail(rest))

\* projection of ChunkAggregateInternal to ChunkAggregate
ProjectChunk(chunk, weight) ==
  [key |-> chunk.key, index |-> chunk.index, chunkId |-> chunk.chunkId,
   occurrences |-> chunk.occurrences, flags |-> chunk.flags, poor |-> chunk.poor,
   questions |-> Cardinality(chunk.questionIds), runs |-> Len(chunk.runIds),
   runIds |-> chunk.runIds, severity |-> chunk.flags * weight + chunk.poor]

\* variant: the chunk slots are the chunks observed, not the highest index
ProjectDoc_countsChunks(doc, weight) ==
  LET chunks == StableSort("index", <<>>,
                        [i \in 1..Len(doc.chunkMap) |-> ProjectChunk(doc.chunkMap[i], weight)])
      humanFlags == Cardinality(doc.flaggedQuestions)
      poor == Cardinality(doc.poorQuestions)
  IN [title |-> doc.title,
      severity |-> humanFlags * weight + poor,
      humanFlags |-> humanFlags,
      poorLLM |-> poor,
      totalRetrievals |-> doc.retrievalCount,
      chunkCount |-> Max2(Len(chunks), 1),
      chunks |-> chunks]

ProjectDoc(doc, weight) ==
  LET chunks == StableSort("index", <<>>,
                        [i \in 1..Len(doc.chunkMap) |-> ProjectChunk(doc.chunkMap[i], weight)])
      humanFlags == Cardinality(doc.flaggedQuestions)
      poor == Cardinality(doc.poorQuestions)
  IN [title |-> doc.title,
      severity |-> humanFlags * weight + poor,
      humanFlags |-> humanFlags,
      poorLLM |-> poor,
      totalRetrievals |-> doc.retrievalCount,
      chunkCount |-> IF doc.maxIndex >= 0 THEN doc.maxIndex + 1 ELSE Max2(Len(chunks), 1),
      chunks |-> chunks]

\* point.retrievedDocs.forEach(...) on an absent retrievedDocs raises a TypeError inside
\* the memo, that is, while the chart renders
fingerprintsThrows(points) == \E i \in 1..Len(points) : ~points[i].hasRetrievedDocs

\* the fingerprints memo: DocumentFingerprint[] for a point list, weight and sort key
fingerprints(points, weight, sortKey) ==
  LET docMap == AccumulatePoints(<<>>, points)
  IN StableSort(sortKey, <<>>, [i \in 1..Len(docMap) |-> ProjectDoc(docMap[i], weight)])

----------------------------------------------------------------------------
(* OverviewDashboard (controller with the highlight/filter toggle) *)

NoSelectedChunk == [active |-> FALSE, key |-> NoKey, docTitle |-> "", chunkIndex |-> NoIndex]

NoScoreFilter == [active |-> FALSE, metric |-> "", range |-> <<0, 0>>]

\* the useState initial values
InitialCtl ==
  [selectedRunIds |-> {}, selectedChunk |-> NoSelectedChunk,
   viewMode |-> "highlight", scoreFilter |-> NoScoreFilter]

\* scoreFilter.metric === "llm" ? d.llmScore : d.avgSimilarity
MetricValue(metric, d) == IF metric = "llm" THEN d.llmScore ELSE d.avgSimilarity

\* variant: upper bound always exclusive
FilterMatches_exclusive(sf, d) ==
  LET value == MetricValue(sf.metric, d)
  IN value >= sf.range[1] /\ value < sf.range[2]

\* variant: upper bound always inclusive
FilterMatches_inclusive(sf, d) ==
  LET value == MetricValue(sf.metric, d)
  IN value >= sf.range[1] /\ value <= sf.range[2]

\* the predicate of result.filter inside filteredData
FilterMatches(sf, d) ==
  LET value == MetricValue(sf.metric, d)
      upperInclusive == IF sf.range[2] >= One THEN value <= sf.range[2] ELSE value < sf.range[2]
  IN value >= sf.range[1] /\ upperInclusive

\* the predicate of data.forEach inside scoreHighlightIds
HighlightMatches(sf, d) ==
  LET value == MetricValue(sf.metric, d)
      upperInclusive == IF sf.range[2] >= One THEN value <= sf.range[2] ELSE value < sf.range[2]
  IN value >= sf.range[1] /\ upperInclusive

\* variant: the selection is not applied in filter mode
filteredData_ignoresSelection(points, c) ==
  IF c.viewMode = "highlight" THEN points
  ELSE LET InRange(d) == FilterMatches(c.scoreFilter, d)
       IN IF c.scoreFilter.active THEN SelectSeq(points, InRange) ELSE points

filteredData(points, c) ==
  IF c.viewMode = "highlight" THEN points
  ELSE LET InSelection(d) == d.runId \in c.selectedRunIds
           InRange(d) == FilterMatches(c.scoreFilter, d)
           bySelection == IF c.selectedRunIds # {} THEN SelectSeq(points, InSelection)
                          ELSE points
       IN IF c.scoreFilter.active THEN SelectSeq(bySelection, InRange) ELSE bySelection

\* variant: the matching ids are taken from the filtered list instead of the full list
scoreHighlightIds_fromFiltered(points, c) ==
  IF ~c.scoreFilter.active THEN {}
  ELSE LET shown == filteredData(points, c)
       IN {shown[i].runId :
             i \in {j \in 1..Len(shown) : HighlightMatches(c.scoreFilter, shown[j])}}

\* null (no filter) contributes no id to the union below
scoreHighlightIds(points, c) ==
  IF ~c.scoreFilter.active THEN {}
  ELSE {points[i].runId : i \in {j \in 1..Len(points) : HighlightMatches(c.scoreFilter, points[j])}}

combinedHighlightIds(points, c) == c.selectedRunIds \cup scoreHighlightIds(points, c)

\* variant: a non-empty region also drops the score filter
handleBrushSelection_clearsFilter(c, ids) ==
  [c EXCEPT !.selectedRunIds = ids, !.selectedChunk = NoSelectedChunk,
            !.scoreFilter = IF ids # {} THEN NoScoreFilter ELSE @]

\* variant: the chunk selection is dropped only by a non-empty region
handleBrushSelection_guarded(c, ids) ==
  [c EXCEPT !.selectedRunIds = ids,
            !.selectedChunk = IF ids # {} THEN NoSelectedChunk ELSE @]

handleBrushSelection(c, ids) ==
  [c EXCEPT !.selectedRunIds = ids, !.selectedChunk = NoSelectedChunk]

\* variant: a bin click leaves the chunk selection in place
handleBinClick_keepsChunk(c, metric, range) ==
  [c EXCEPT !.scoreFilter = [active |-> TRUE, metric |-> metric, range |-> range]]

\* variant: a bin click also drops the selected runs
handleBinClick_clearsRuns(c, metric, range) ==
  [c EXCEPT !.scoreFilter = [active |-> TRUE, metric |-> metric, range |-> range],
            !.selectedRunIds = {}, !.selectedChunk = NoSelectedChunk]

handleBinClick(c, metric, range) ==
  [c EXCEPT !.scoreFilter = [active |-> TRUE, metric |-> metric, range |-> range],
            !.selectedChunk = NoSelectedChunk]

\* variant: the score filter survives a chunk selection
handleChunkSelect_keepsFilter(c, payload) ==
  [c EXCEPT !.selectedRunIds = payload.runIds,
            !.selectedChunk = [active |-> TRUE, key |-> payload.chunkKey,
                               docTitle |-> payload.docTitle, chunkIndex |-> payload.chunkIndex]]

handleChunkSelect(c, payload) ==
  [c EXCEPT !.selectedRunIds = payload.runIds,
            !.selectedChunk = [active |-> TRUE, key |-> payload.chunkKey,
                               docTitle |-> payload.docTitle, chunkIndex |-> payload.chunkIndex],
            !.scoreFilter = NoScoreFilter]

\* variant: the score filter is not reset
clearFilters_keepsScore(c) ==
  [c EXCEPT !.selectedRunIds = {}, !.selectedChunk = NoSelectedChunk]

clearFilters(c) ==
  [c EXCEPT !.selectedRunIds = {}, !.selectedChunk = NoSelectedChunk,
            !.scoreFilter = NoScoreFilter]

\* variant: a mode switch starts from a clean selection
setViewMode_resets(c, mode) ==
  [c EXCEPT !.viewMode = mode, !.selectedRunIds = {}, !.selectedChunk = NoSelectedChunk,
            !.scoreFilter = NoScoreFilter]

\* onClick of a mode button: setViewMode(mode)
setViewMode(c, mode) == [c EXCEPT !.viewMode = mode]

hasActiveFilters(c) ==
  c.selectedRunIds # {} \/ c.selectedChunk.active \/ c.scoreFilter.active

\* the "Open Question" button is rendered when filteredData.length === 1
OpenQuestionOffered(points, c) == Len(filteredData(points, c)) = 1

\* props handed to the three views
ScatterData(points, c) == filteredData(points, c)

HistogramData(points, c) == filteredData(points, c)

ChartData(points, c) == IF c.viewMode = "filter" THEN filteredData(points, c) ELSE points

ChartHighlightedRunIds(points, c) ==
  IF c.viewMode = "highlight" THEN combinedHighlightIds(points, c) ELSE c.selectedRunIds

----------------------------------------------------------------------------
(* QualityScatterplot *)

NotDrawn == [drawn |-> FALSE, data |-> <<>>, selectedIds |-> {}]

\* the render effect: returns before drawing anything when data.length === 0
RenderScatter(prev, points, selectedIds) ==
  IF Len(points) = 0 THEN prev
  ELSE [drawn |-> TRUE, data |-> points, selectedIds |-> selectedIds]

\* the circles in the svg: one per point of the list last drawn
ScatterMarks(drawn) == IF drawn.drawn THEN Len(drawn.data) ELSE 0

\* d3.scaleLinear().domain([0, 1]).range([0, width]), in hundredths of a pixel
xScale(v) == v * PlotWidth

\* d3.scaleLinear().domain([0, 1]).range([height, 0]), in hundredths of a pixel
yScale(v) == (One - v) * PlotHeight

\* brush corner positions (pixels) the user may release the brush at
BrushXs == {0, 342, PlotWidth}

BrushYs == {0, 202, PlotHeight}

\* variant: the bounds of the region are open
BrushedIds_openBounds(points, x0, y0, x1, y1) ==
  {points[i].runId : i \in {j \in 1..Len(points) :
      LET x == xScale(points[j].llmScore)
          y == yScale(points[j].avgSimilarity)
      IN x0 * 100 < x /\ x < x1 * 100 /\ y0 * 100 < y /\ y < y1 * 100}}

\* brush "end" handler with a selection [[x0, y0], [x1, y1]] (pixels)
BrushedIds(points, x0, y0, x1, y1) ==
  {points[i].runId : i \in {j \in 1..Len(points) :
      LET x == xScale(points[j].llmScore)
          y == yScale(points[j].avgSimilarity)
      IN x0 * 100 <= x /\ x <= x1 * 100 /\ y0 * 100 <= y /\ y <= y1 * 100}}

\* circle click handler: toggle d.runId in the selectedIds the marks were drawn with
ToggledSelection(selectedIds, runId) ==
  IF runId \in selectedIds THEN selectedIds \ {runId} ELSE selectedIds \cup {runId}

----------------------------------------------------------------------------
(* DistributionHistograms *)

\* d3.range(start, stop, step)
d3range(start, stop, step) ==
  LET n == (stop - start + step - 1) \div step
  IN [i \in 1..n |-> start + (i - 1) * step]

\* d3.bin().domain([x0, x1]).thresholds(tz): thresholds outside (x0, x1) are dropped,
\* bin i spans [tz[i-1], tz[i]) and the last bin is closed at x1
d3binBounds(x0, x1, thresholds) ==
  LET Inside(t) == t > x0 /\ t < x1
      tz == SelectSeq(thresholds, Inside)
      m == Len(tz)
  IN [i \in 1..(m + 1) |->
        [x0 |-> IF i > 1 THEN tz[i - 1] ELSE x0,
         x1 |-> IF i <= m THEN tz[i] ELSE x1]]

bins == d3binBounds(0, One, d3range(0, One + BinStep, BinStep))

\* number of values d3.bin puts into bin i
BinLength(points, metric, i) ==
  Cardinality({j \in 1..Len(points) :
     LET x == MetricValue(metric, points[j])
     IN /\ 0 <= x /\ x <= One
        /\ IF i = Len(bins) THEN bins[i].x0 <= x ELSE bins[i].x0 <= x /\ x < bins[i].x1})

\* onBinClick(metric, [d.x0 || 0, d.x1 || 1])
BinClickRange(i) ==
  <<IF bins[i].x0 = 0 THEN 0 ELSE bins[i].x0, IF bins[i].x1 = 0 THEN One ELSE bins[i].x1>>

\* the render effect: returns before drawing anything when data.length === 0
RenderHist(prev, points) ==
  IF Len(points) = 0 THEN prev ELSE [drawn |-> TRUE, data |-> points]

\* the bars of non-zero height in the two histogram svgs
HistBars(drawn) ==
  IF drawn.drawn
  THEN Cardinality({<<metric, i>> \in Metrics \X (1..Len(bins)) :
                      BinLength(drawn.data, metric, i) > 0})
  ELSE 0

----------------------------------------------------------------------------
(* DocumentUsageChart: selection *)

NoActiveChunk == [active |-> FALSE, docTitle |-> "", hasChunk |-> FALSE, key |-> NoKey]

\* variant: a chunk click emits one id per retrieval of the chunk
ChunkClickPayload_perOccurrence(docTitle, chunk) ==
  [runIds |-> 1..chunk.occurrences, chunkKey |-> chunk.key, docTitle |-> docTitle,
   chunkIndex |-> chunk.index]

\* payload of handleChunkClick
ChunkClickPayload(docTitle, chunk) ==
  [runIds |-> Range(chunk.runIds), chunkKey |-> chunk.key, docTitle |-> docTitle,
   chunkIndex |-> chunk.index]

\* variant: a document click emits the runs of the document's first chunk only
DocumentClickPayload_firstChunk(doc) ==
  [runIds |-> Range(doc.chunks[1].runIds),
   chunkKey |-> NoKey, docTitle |-> doc.title, chunkIndex |-> NoIndex]

\* payload of handleDocumentClick
DocumentClickPayload(doc) ==
  [runIds |-> UNION {Range(doc.chunks[i].runIds) : i \in 1..Len(doc.chunks)},
   chunkKey |-> NoKey, docTitle |-> doc.title, chunkIndex |-> NoIndex]

\* activeChunkKey ? (activeChunk?.chunk?.key === activeChunkKey ? activeChunk : null) : activeChunk
visibleActiveChunk(active, activeChunkKey) ==
  IF activeChunkKey # NoKey
  THEN IF active.active /\ active.hasChunk /\ active.key = activeChunkKey
       THEN active ELSE NoActiveChunk
  ELSE active

\* activeChunk?.docTitle === doc.title && !activeChunk.chunk
isDocSelected(active, doc) == active.active /\ active.docTitle = doc.title /\ ~active.hasChunk

\* activeChunk?.docTitle === doc.title && activeChunk.chunk
hasChunkSelected(active, doc) == active.active /\ active.docTitle = doc.title /\ active.hasChunk

\* activeChunk?.chunk?.key === chunk.key
isActive(active, chunk) == active.active /\ active.hasChunk /\ active.key = chunk.key

\* opacity of a chunk segment, in hundredths
SegmentOpacity(active, doc, chunk, viewMode, highlightedRunIds) ==
  LET chunkMatchesHighlight ==
        IF highlightedRunIds = {} THEN TRUE
        ELSE Range(chunk.runIds) \cap highlightedRunIds # {}
      baseOpacity == IF hasChunkSelected(active, doc) /\ ~isActive(active, chunk) THEN 35 ELSE 100
  IN IF viewMode = "highlight" /\ highlightedRunIds # {}
     THEN IF chunkMatchesHighlight THEN baseOpacity ELSE 15
     ELSE baseOpacity

\* Math.max((containerWidth || 800) - 28, 240)
barWidth(width) == Max2((IF width = 0 THEN 800 ELSE width) - 28, 240)

\* pixel lengths are kept exact as fractions <<numerator, denominator>>, denominator > 0
LeqQ(a, b) == a[1] * b[2] <= b[1] * a[2]

MaxQ(a, b) == IF LeqQ(b, a) THEN a ELSE b

MinQ(a, b) == IF LeqQ(a, b) THEN a ELSE b

\* d3.scaleLinear().domain([0, chunkCount]).range([0, barWidth]) of the row
rowScale(rowWidth, chunkCount, v) == <<v * rowWidth, chunkCount>>

\* width of the segment of the chunk with the given index:
\* Math.min(Math.max(xScale(index + 1) - xScale(index), MIN_SEGMENT_WIDTH), barWidth - x)
SegmentWidth(rowWidth, chunkCount, index) ==
  LET x == rowScale(rowWidth, chunkCount, index)
      slot == <<rowScale(rowWidth, chunkCount, index + 1)[1] - x[1], chunkCount>>
      rest == <<rowWidth * chunkCount - x[1], chunkCount>>
  IN MinQ(MaxQ(slot, <<MIN_SEGMENT_WIDTH, 1>>), rest)

----------------------------------------------------------------------------
(* State machine *)

\* history record of a user event; pre tells what was active when the event arrived
\* bucket.questionId null
NullQuestion == "null"

NoMessage == "null"

EmptyBucket == [questionId |-> NullQuestion, runIds |-> <<>>]

\* variant: a run of another question is appended to the bucket instead of replacing it
toggleRunSelection_noSwitch(current, questionId, runId) ==
  IF runId \in Range(current.runIds)
  THEN LET Other(id) == id # runId
           remaining == SelectSeq(current.runIds, Other)
       IN [questionId |-> IF Len(remaining) > 0 THEN questionId ELSE NullQuestion,
           runIds |-> remaining]
  ELSE IF Len(current.runIds) >= MAX_COMPARISON_RUNS THEN current
  ELSE [questionId |-> questionId, runIds |-> Append(current.runIds, runId)]

\* the updater passed to setBucket in toggleRunSelection (question ids are non-empty
\* strings, so current.questionId is truthy exactly when it is not null)
toggleRunSelection(current, questionId, runId) ==
  IF current.questionId # NullQuestion /\ current.questionId # questionId
  THEN [questionId |-> questionId, runIds |-> <<runId>>]
  ELSE IF runId \in Range(current.runIds)
  THEN LET Other(id) == id # runId
           remaining == SelectSeq(current.runIds, Other)
       IN [questionId |-> IF Len(remaining) > 0 THEN questionId ELSE NullQuestion,
           runIds |-> remaining]
  ELSE IF Len(current.runIds) >= MAX_COMPARISON_RUNS THEN current
  ELSE [questionId |-> questionId, runIds |-> Append(current.runIds, runId)]

\* nextMessage as the updater assigns it
nextMessage(current, questionId, runId) ==
  IF current.questionId # NullQuestion /\ current.questionId # questionId THEN "switched"
  ELSE IF runId \in Range(current.runIds) THEN NoMessage
  ELSE IF Len(current.runIds) >= MAX_COMPARISON_RUNS THEN "limit"
  ELSE NoMessage

Event(kind) ==
  [kind |-> kind, ids |-> {}, metric |-> "", range |-> <<0, 0>>, title |-> "", key |-> NoKey,
   region |-> <<0, 0, 0, 0>>,
   pre |-> [runs |-> FALSE, chunk |-> FALSE, filter |-> FALSE]]

Stamp(ev) ==
  [ev EXCEPT !.pre = [runs |-> ctl.selectedRunIds # {}, chunk |-> ctl.selectedChunk.active,
                      filter |-> ctl.scoreFilter.active]]

\* the render of the fingerprint view threw: no error boundary, the dashboard is gone
Crashed == fingerprintsThrows(ChartData(data, ctl))

\* the fingerprints the chart currently shows
ShownFingerprints == fingerprints(ChartData(data, ctl), severityWeight, sortBy)

\* state after mounting the dashboard on a point list
Mounted(points) ==
  /\ data = points
  /\ ctl = InitialCtl
  /\ sortBy = "severity"
  /\ severityWeight = DefaultSeverityWeight
  /\ activeChunk = NoActiveChunk
  /\ scatter = RenderScatter(NotDrawn, ScatterData(points, InitialCtl), {})
  /\ hist = RenderHist([drawn |-> FALSE, data |-> <<>>], HistogramData(points, InitialCtl))
  /\ navigatedTo = NoNav
  /\ containerWidth = 0
  /\ lastEvent = Event("mount")
  /\ bucket = EmptyBucket
  /\ bucketMessage = NoMessage
  /\ bucketHistory = [previous |-> EmptyBucket, addedUnder |-> [r \in {} |-> NullQuestion]]

Init == \E points \in Datasets : Mounted(points)

\* a controller state change followed by the re-render of the effect-drawn views
Commit(c, ev) ==
  /\ navigatedTo = NoNav
  /\ ~Crashed
  /\ ctl' = c
  /\ scatter' = RenderScatter(scatter, ScatterData(data, c), c.selectedRunIds)
  /\ hist' = RenderHist(hist, HistogramData(data, c))
  /\ lastEvent' = Stamp(ev)
  /\ UNCHANGED <<data, sortBy, severityWeight, containerWidth, bucketVars>>

\* brush released over a region of the drawn plot
BrushRegion ==
  \E x0 \in BrushXs, x1 \in BrushXs, y0 \in BrushYs, y1 \in BrushYs :
    /\ scatter.drawn
    /\ x0 < x1 /\ y0 < y1
    /\ LET ids == BrushedIds(scatter.data, x0, y0, x1, y1)
       IN Commit(handleBrushSelection(ctl, ids),
                 [Event("brush") EXCEPT !.ids = ids, !.region = <<x0, y0, x1, y1>>])
    /\ UNCHANGED <<activeChunk, navigatedTo>>

\* brush ended without a selection (a tap, or the brush was dismissed)
BrushEmpty ==
  /\ scatter.drawn
  /\ Commit(handleBrushSelection(ctl, {}), Event("brush"))
  /\ UNCHANGED <<activeChunk, navigatedTo>>

\* click on one drawn mark: toggles the id, then handlePointClick navigates
PointClick ==
  \E i \in 1..Len(scatter.data) :
    LET d == scatter.data[i]
        newSelection == ToggledSelection(scatter.selectedIds, d.runId)
    IN /\ scatter.drawn
       /\ Commit(handleBrushSelection(ctl, newSelection),
                 [Event("point") EXCEPT !.ids = {d.runId}])
       /\ navigatedTo' = IF \E j \in 1..Len(data) : data[j].runId = d.runId
                         THEN d.questionId ELSE navigatedTo
       /\ UNCHANGED activeChunk

\* click on a drawn histogram bar (an empty bin has a bar of height 0)
BinClick ==
  \E metric \in Metrics, i \in 1..Len(bins) :
    /\ hist.drawn
    /\ BinLength(hist.data, metric, i) > 0
    /\ Commit(handleBinClick(ctl, metric, BinClickRange(i)),
              [Event("bin") EXCEPT !.metric = metric, !.range = BinClickRange(i)])
    /\ UNCHANGED <<activeChunk, navigatedTo>>

\* click on a chunk segment of the fingerprint view
ChunkClick ==
  LET shown == ShownFingerprints
  IN \E di \in 1..Len(shown) :
       \E ci \in 1..Len(shown[di].chunks) :
         LET doc == shown[di]
             chunk == doc.chunks[ci]
         IN /\ activeChunk' = [active |-> TRUE, docTitle |-> doc.title, hasChunk |-> TRUE,
                               key |-> chunk.key]
            /\ Commit(handleChunkSelect(ctl, ChunkClickPayload(doc.title, chunk)),
                      [Event("chunk") EXCEPT !.title = doc.title, !.key = chunk.key])
            /\ UNCHANGED navigatedTo

\* click on a document label of the fingerprint view
DocumentClick ==
  LET shown == ShownFingerprints
  IN \E di \in 1..Len(shown) :
       LET doc == shown[di]
       IN /\ activeChunk' = [active |-> TRUE, docTitle |-> doc.title, hasChunk |-> FALSE,
                             key |-> NoKey]
          /\ Commit(handleChunkSelect(ctl, DocumentClickPayload(doc)),
                    [Event("document") EXCEPT !.title = doc.title])
          /\ UNCHANGED navigatedTo

\* the Close button of the fingerprint detail panel
CloseDetail ==
  /\ visibleActiveChunk(activeChunk, ctl.selectedChunk.key).active
  /\ activeChunk' = NoActiveChunk
  /\ Commit(ctl, Event("close"))
  /\ UNCHANGED navigatedTo

\* the Highlight / Filter mode buttons (the button of the current mode changes nothing)
SetViewMode ==
  \E mode \in {"highlight", "filter"} :
    /\ mode # ctl.viewMode
    /\ Commit(setViewMode(ctl, mode), [Event("mode") EXCEPT !.title = mode])
    /\ UNCHANGED <<activeChunk, navigatedTo>>

\* the "Clear All Filters" button
ClearAll ==
  /\ hasActiveFilters(ctl)
  /\ Commit(clearFilters(ctl), Event("clear"))
  /\ UNCHANGED <<activeChunk, navigatedTo>>

\* the dismiss button of the "runs selected" chip
DismissRunsChip ==
  /\ ctl.selectedRunIds # {}
  /\ Commit([ctl EXCEPT !.selectedRunIds = {}], Event("chip-runs"))
  /\ UNCHANGED <<activeChunk, navigatedTo>>

\* the dismiss button of the chunk chip
DismissChunkChip ==
  /\ ctl.selectedChunk.active
  /\ Commit([ctl EXCEPT !.selectedChunk = NoSelectedChunk, !.selectedRunIds = {}],
            Event("chip-chunk"))
  /\ UNCHANGED <<activeChunk, navigatedTo>>

\* the dismiss button of the score filter chip
DismissScoreChip ==
  /\ ctl.scoreFilter.active
  /\ Commit([ctl EXCEPT !.scoreFilter = NoScoreFilter], Event("chip-score"))
  /\ UNCHANGED <<activeChunk, navigatedTo>>

\* the "Open Question" button
OpenQuestion ==
  /\ navigatedTo = NoNav
  /\ ~Crashed
  /\ OpenQuestionOffered(data, ctl)
  /\ navigatedTo' = filteredData(data, ctl)[1].questionId
  /\ lastEvent' = Stamp(Event("open"))
  /\ UNCHANGED <<data, ctl, sortBy, severityWeight, activeChunk, scatter, hist, containerWidth,
                 bucketVars>>

Next ==
  \/ BrushRegion
  \/ BrushEmpty
  \/ PointClick
  \/ BinClick
  \/ ChunkClick
  \/ DocumentClick
  \/ CloseDetail
  \/ SetViewMode
  \/ ClearAll
  \/ DismissRunsChip
  \/ DismissChunkChip
  \/ DismissScoreChip
  \/ OpenQuestion

Spec == Init /\ [][Next]_vars

----------------------------------------------------------------------------
(* Aggregation specification: the fingerprint view over arbitrary small point *)
(* lists, re-aggregated on every change of the sort key or severity weight    *)

AggStatuses == {<<1, 10>>, <<0, 10>>, <<0, 40>>}   \* <<humanFlags, llmScore>>

AggQuestions == {"q1", "q2"}

AggDocLists ==
  { <<>>,
    <<Doc("A", 0, "c1"), Doc("A", 0, "c1")>>,
    <<Doc("A", 2, "c2"), Doc("B", NoIndex, "c3")>>,
    <<Doc("B", NoIndex, NoChunkId), Doc("A", 0, "c1")>> }

AggChoices == AggStatuses \X AggQuestions \X AggDocLists

AggList(choice) ==
  [i \in 1..Len(choice) |->
     Point(i, choice[i][2], choice[i][1][2], 50, choice[i][1][1], choice[i][3])]

InitAgg ==
  \E n \in 0..MaxAggPoints : \E choice \in [1..n -> AggChoices] : Mounted(AggList(choice))

\* the Sort buttons above the fingerprint view
SetSortBy ==
  \E key \in SortKeys :
    /\ navigatedTo = NoNav
    /\ ~Crashed
    /\ sortBy' = key
    /\ lastEvent' = Stamp([Event("sort") EXCEPT !.title = key])
    /\ UNCHANGED <<data, ctl, severityWeight, activeChunk, scatter, hist, navigatedTo,
                   containerWidth, bucketVars>>

\* the severity weight slider
SetSeverityWeight ==
  \E w \in Weights :
    /\ navigatedTo = NoNav
    /\ ~Crashed
    /\ severityWeight' = w
    /\ lastEvent' = Stamp(Event("weight"))
    /\ UNCHANGED <<data, ctl, sortBy, activeChunk, scatter, hist, navigatedTo,
                   containerWidth, bucketVars>>

NextAgg == SetSortBy \/ SetSeverityWeight

SpecAgg == InitAgg /\ [][NextAgg]_vars

----------------------------------------------------------------------------
(* Malformed-input specification: point lists in which a point may come without *)
(* its retrievedDocs field                                                      *)

MalformedDocLists == {<<>>, <<Doc("A", 0, "c1")>>, <<Doc("B", 1, "c3")>>}

\* <<status, questionId, retrievedDocs present, retrievedDocs>>
MalformedChoices == AggStatuses \X AggQuestions \X BOOLEAN \X MalformedDocLists

MalformedList(choice) ==
  [i \in 1..Len(choice) |->
     IF choice[i][3]
     THEN Point(i, choice[i][2], choice[i][1][2], 50, choice[i][1][1], choice[i][4])
     ELSE PointWithoutDocs(i, choice[i][2], choice[i][1][2], 50, choice[i][1][1])]

InitMalformed ==
  \E n \in 0..MaxAggPoints :
    \E choice \in [1..n -> MalformedChoices] : Mounted(MalformedList(choice))

SpecMalformed == InitMalformed /\ [][NextAgg]_vars

----------------------------------------------------------------------------
(* Layout specification: the fingerprint view of documents with many chunk slots *)
(* in containers of several widths                                              *)

LayoutIndices == {0, 1, 40, 41}

\* container widths reported by the ResizeObserver (pixels)
ContainerWidths == {0, 200, 268, 400, 800}

LayoutList(indices) ==
  [i \in 1..Len(indices) |-> Point(i, "q1", 50, 50, 0, <<Doc("A", indices[i], "c1")>>)]

InitLayout ==
  \E n \in 0..MaxAggPoints :
    \E indices \in [1..n -> LayoutIndices] : Mounted(LayoutList(indices))

\* measure() after mount and the ResizeObserver callback: setContainerWidth(width)
Resize ==
  \E width \in ContainerWidths :
    /\ navigatedTo = NoNav
    /\ ~Crashed
    /\ containerWidth' = width
    /\ lastEvent' = Stamp(Event("resize"))
    /\ UNCHANGED <<data, ctl, sortBy, severityWeight, activeChunk, scatter, hist, navigatedTo,
                   bucketVars>>

NextLayout == Resize

SpecLayout == InitLayout /\ [][NextLayout]_vars

----------------------------------------------------------------------------
(* Repeated-run specification: point lists in which a run id may occur more than *)
(* once, under the same or under another questionId                              *)

RepeatedRunIds == {1, 2}

\* <<runId, questionId, retrievedDocs>>
RepeatedChoices == RepeatedRunIds \X AggQuestions \X AggDocLists

RepeatedList(choice) ==
  [i \in 1..Len(choice) |-> Point(choice[i][1], choice[i][2], 50, 50, 0, choice[i][3])]

InitRepeated ==
  \E n \in 0..MaxAggPoints :
    \E choice \in [1..n -> RepeatedChoices] : Mounted(RepeatedList(choice))

SpecRepeated == InitRepeated /\ [][NextAgg]_vars

----------------------------------------------------------------------------
(* Comparison bucket specification: DashboardQuestionList under arbitrary calls of *)
(* toggleRunSelection and clearBucket                                              *)

BucketQuestions == {"q1", "q2"}

BucketRuns == 1..MaxBucketRuns

InitBucket == Mounted(<<>>)

\* toggleRunSelection(questionId, runId). The updater runs either inside setBucket or in
\* the next render, so the read of nextMessage that follows sees its value or still null.
ToggleRunSelection ==
  \E questionId \in BucketQuestions, runId \in BucketRuns :
    LET next == toggleRunSelection(bucket, questionId, runId)
    IN /\ bucket' = next
       /\ bucketMessage' \in {NoMessage, nextMessage(bucket, questionId, runId)}
       /\ bucketHistory' =
            [previous |-> bucket,
             addedUnder |-> [r \in Range(next.runIds) |->
                               IF r = runId THEN questionId ELSE bucketHistory.addedUnder[r]]]
       /\ lastEvent' = Stamp([Event("toggle-run") EXCEPT !.title = questionId, !.ids = {runId}])
       /\ UNCHANGED <<data, ctl, sortBy, severityWeight, activeChunk, scatter, hist,
                      navigatedTo, containerWidth>>

\* the Clear button
ClearBucket ==
  /\ bucket' = EmptyBucket
  /\ bucketMessage' = NoMessage
  /\ bucketHistory' = [previous |-> bucket, addedUnder |-> [r \in {} |-> NullQuestion]]
  /\ lastEvent' = Stamp(Event("clear-bucket"))
  /\ UNCHANGED <<data, ctl, sortBy, severityWeight, activeChunk, scatter, hist,
                 navigatedTo, containerWidth>>

NextBucket == ToggleRunSelection \/ ClearBucket

SpecBucket == InitBucket /\ [][NextBucket]_vars

----------------------------------------------------------------------------
(* Properties *)

\* a metric value lies in a filter range [lo, hi), hi included only when it is the maximum 1.0
InFilterRange(range, v) ==
  range[1] <= v /\ (v < range[2] \/ (range[2] = One /\ v = One))

\* the points of the full list that satisfy the active selection and score filter
MatchesActiveFilters(d) ==
  /\ ctl.selectedRunIds = {} \/ d.runId \in ctl.selectedRunIds
  /\ ~ctl.scoreFilter.active
       \/ InFilterRange(ctl.scoreFilter.range, MetricValue(ctl.scoreFilter.metric, d))

C3_EmptyRegionKeepsChunk ==
  [][(lastEvent'.kind = "brush" /\ lastEvent'.ids = {}) =>
       /\ ctl'.selectedRunIds = {}
       /\ ctl'.scoreFilter = ctl.scoreFilter
       /\ ctl'.selectedChunk = ctl.selectedChunk]_vars

\* C3 (amended): an empty region selection empties selectedRunIds, leaves the score
\* filter as it was and sets the chunk selection to null.
C3_EmptyRegionClearsChunk ==
  [][(lastEvent'.kind = "brush" /\ lastEvent'.ids = {}) =>
       /\ ctl'.selectedRunIds = {}
       /\ ctl'.scoreFilter = ctl.scoreFilter
       /\ ~ctl'.selectedChunk.active]_vars

C3_Witness ==
  /\ lastEvent.kind = "brush" /\ lastEvent.ids = {}
  /\ lastEvent.pre.chunk /\ ~ctl.selectedChunk.active

\* C4: a document or chunk click replaces selectedRunIds with the runs of the list shown
\* in the fingerprint view that retrieved the clicked target, sets the score filter to
\* null and makes the clicked target the chunk selection (chunkKey null for a document),
\* also when the click follows a histogram bin click.
C4_ChunkClickReplaces ==
  [][lastEvent'.kind \in {"chunk", "document"} =>
       LET shown == ChartData(data, ctl)
           Retrieved(d) ==
             \E k \in 1..Len(d.retrievedDocs) :
               IF lastEvent'.kind = "chunk"
               THEN ChunkKey(d.retrievedDocs[k]) = lastEvent'.key
               ELSE TitleOf(d.retrievedDocs[k]) = lastEvent'.title
           resolved == {shown[i].runId : i \in {j \in 1..Len(shown) : Retrieved(shown[j])}}
       IN /\ ctl'.selectedRunIds = resolved
          /\ ~ctl'.scoreFilter.active
          /\ ctl'.selectedChunk.active
          /\ ctl'.selectedChunk.docTitle = lastEvent'.title
          /\ ctl'.selectedChunk.key = lastEvent'.key
          /\ lastEvent'.kind = "document" =>
               (ctl'.selectedChunk.key = NoKey /\ ctl'.selectedChunk.chunkIndex = NoIndex)]_vars

C4_Witness ==
  /\ lastEvent.kind = "document" /\ lastEvent.pre.filter
  /\ ~ctl.scoreFilter.active
  /\ ctl.selectedChunk.active /\ ctl.selectedChunk.key = NoKey
  /\ ctl.selectedRunIds # {}

\* C5: clear-all leaves selectedRunIds empty, the score filter null and the chunk
\* selection null from every reachable state, and clearing the cleared state again
\* changes nothing.
C5_ClearAllIdempotent ==
  LET once == clearFilters(ctl)
  IN /\ once.selectedRunIds = {}
     /\ ~once.scoreFilter.active
     /\ ~once.selectedChunk.active
     /\ once.viewMode = ctl.viewMode
     /\ clearFilters(once) = once
     /\ lastEvent.kind = "clear" => ctl = once

C5_Witness ==
  /\ lastEvent.kind = "clear"
  /\ lastEvent.pre.runs /\ lastEvent.pre.filter
  /\ ~hasActiveFilters(ctl)

\* C6: in filter mode every view is handed exactly the points that are in selectedRunIds
\* (when it is non-empty) and in the score filter range (when a filter is set); in
\* highlight mode every view is handed the full list.
C6_ActivePointSubset ==
  LET expected == IF ctl.viewMode = "filter" THEN SelectSeq(data, MatchesActiveFilters)
                  ELSE data
  IN /\ ScatterData(data, ctl) = expected
     /\ HistogramData(data, ctl) = expected
     /\ ChartData(data, ctl) = expected

C6_Witness ==
  /\ ctl.viewMode = "filter"
  /\ ctl.selectedRunIds # {} /\ ctl.scoreFilter.active
  /\ Len(filteredData(data, ctl)) > 0
  /\ \E i \in 1..Len(data) :
       /\ data[i].runId \in ctl.selectedRunIds
       /\ data[i] \notin Range(filteredData(data, ctl))
  /\ \E i \in 1..Len(data) :
       /\ data[i].runId \notin ctl.selectedRunIds
       /\ InFilterRange(ctl.scoreFilter.range, MetricValue(ctl.scoreFilter.metric, data[i]))

\* C7: the highlight id set is the union of selectedRunIds and the run ids of the points
\* of the full list that match the score filter, in either mode.
C7_HighlightUnion ==
  LET matching ==
        {data[i].runId : i \in {j \in 1..Len(data) :
            /\ ctl.scoreFilter.active
            /\ InFilterRange(ctl.scoreFilter.range,
                             MetricValue(ctl.scoreFilter.metric, data[j]))}}
  IN /\ combinedHighlightIds(data, ctl) = ctl.selectedRunIds \cup matching
     /\ ctl.viewMode = "highlight" =>
          ChartHighlightedRunIds(data, ctl) = ctl.selectedRunIds \cup matching

C7_Witness ==
  /\ ctl.viewMode = "filter"
  /\ ctl.scoreFilter.active /\ ctl.selectedRunIds # {}
  /\ ~(combinedHighlightIds(data, ctl) \subseteq RunIdsOf(filteredData(data, ctl)))
  /\ ~(combinedHighlightIds(data, ctl) \subseteq ctl.selectedRunIds)

\* C8: while the filter of the top bin [0.9, 1.0] is active, every point whose value is
\* exactly 1.0 matches it, and the runs that match are the same in highlight mode (the
\* highlight ids) and in filter mode (the filtered list).
C8_TopBinInclusive ==
  (ctl.scoreFilter.active /\ ctl.scoreFilter.range = <<One - BinStep, One>>) =>
    LET matched == scoreHighlightIds(data, ctl)
        Selected(r) == ctl.selectedRunIds = {} \/ r \in ctl.selectedRunIds
    IN /\ \A i \in 1..Len(data) :
            MetricValue(ctl.scoreFilter.metric, data[i]) = One => data[i].runId \in matched
       /\ ctl.viewMode = "filter" =>
            RunIdsOf(filteredData(data, ctl)) = {r \in matched : Selected(r)}

C8_Witness ==
  /\ lastEvent.kind = "bin" /\ lastEvent.range = <<One - BinStep, One>>
  /\ ctl.viewMode = "filter"
  /\ \E i \in 1..Len(data) :
       /\ MetricValue(ctl.scoreFilter.metric, data[i]) = One
       /\ data[i] \in Range(filteredData(data, ctl))

\* C9 (as stated): the "open detail" affordance is offered whenever the active selection
\* and filter single out exactly one run, in either mode, and is not offered when they
\* single out more than one.
C9_OpenOfferedForSingleRun ==
  LET singled == {i \in 1..Len(data) : MatchesActiveFilters(data[i])}
      narrowed == ctl.selectedRunIds # {} \/ ctl.scoreFilter.active
  IN /\ (narrowed /\ Cardinality(singled) = 1) => OpenQuestionOffered(data, ctl)
     /\ (narrowed /\ Cardinality(singled) > 1) => ~OpenQuestionOffered(data, ctl)

\* C10: no point is both flagged and poor, and in every chunk aggregate of the
\* fingerprints flags + poor <= occurrences.
C10_FlagPoorExclusive ==
  LET fps == fingerprints(data, severityWeight, sortBy)
  IN /\ \A i \in 1..Len(data) : ~(data[i].humanFlags > 0 /\ poorLLM(data[i]))
     /\ \A i \in 1..Len(fps) : \A k \in 1..Len(fps[i].chunks) :
          fps[i].chunks[k].flags + fps[i].chunks[k].poor <= fps[i].chunks[k].occurrences

C10_Witness ==
  LET fps == fingerprints(data, severityWeight, sortBy)
  IN /\ \E i \in 1..Len(data) :
          /\ data[i].humanFlags > 0 /\ data[i].llmScore < POOR_THRESHOLD
          /\ Len(data[i].retrievedDocs) > 0
     /\ \E i \in 1..Len(fps) : \E k \in 1..Len(fps[i].chunks) :
          /\ fps[i].chunks[k].flags > 0 /\ fps[i].chunks[k].poor > 0
          /\ fps[i].chunks[k].flags + fps[i].chunks[k].poor = fps[i].chunks[k].occurrences

\* the run ids of the points of the list that retrieved the chunk with the given key
\* at least once and satisfy the status predicate
RunsRetrieving(points, key, Status(_)) ==
  {points[i].runId : i \in {j \in 1..Len(points) :
      /\ Status(points[j])
      /\ \E k \in 1..Len(points[j].retrievedDocs) : ChunkKey(points[j].retrievedDocs[k]) = key}}

\* C11 (as stated): in every chunk aggregate flags is the number of distinct flagged runs
\* that retrieved the chunk and poor the number of distinct unflagged runs with
\* llmScore < 0.4 that retrieved it; a run listing the chunk twice is counted once.
C11_FlagsCountDistinctRuns ==
  LET fps == fingerprints(data, severityWeight, sortBy)
      IsFlagged(d) == d.humanFlags > 0
      IsPoor(d) == d.humanFlags = 0 /\ d.llmScore < POOR_THRESHOLD
  IN \A i \in 1..Len(fps) : \A k \in 1..Len(fps[i].chunks) :
       LET chunk == fps[i].chunks[k]
       IN /\ chunk.flags = Cardinality(RunsRetrieving(data, chunk.key, IsFlagged))
          /\ chunk.poor = Cardinality(RunsRetrieving(data, chunk.key, IsPoor))

\* the retrievedDocs entries of a point list that belong to the document with the title
DocEntriesOf(points, title) ==
  UNION {{points[i].retrievedDocs[k] :
            k \in {m \in 1..Len(points[i].retrievedDocs) :
                     TitleOf(points[i].retrievedDocs[m]) = title}} : i \in 1..Len(points)}

\* C12: for every document of the fingerprint output chunkCount is
\* max(highest observed chunk index + 1, 1), an entry without an index counting as
\* index 0, also when indices below the highest were never observed.
C12_ChunkCountFromMaxIndex ==
  LET fps == fingerprints(data, severityWeight, sortBy)
  IN \A i \in 1..Len(fps) :
       LET observed == {IF e.index = NoIndex THEN 0 ELSE e.index :
                          e \in DocEntriesOf(data, fps[i].title)}
           highest == CHOOSE m \in observed : \A n \in observed : n <= m
       IN /\ observed # {}
          /\ fps[i].chunkCount = Max2(highest + 1, 1)

C12_Witness ==
  LET fps == fingerprints(data, severityWeight, sortBy)
  IN /\ \E i \in 1..Len(fps) :
          fps[i].chunkCount = 3 /\ Len(fps[i].chunks) = 1
     /\ \E i \in 1..Len(fps) :
          /\ fps[i].chunkCount = 1
          /\ \A e \in DocEntriesOf(data, fps[i].title) : e.index = NoIndex

\* the questionIds of the points that retrieved some chunk of the document and satisfy
\* the status predicate
QuestionsRetrieving(points, title, Status(_)) ==
  {points[i].questionId : i \in {j \in 1..Len(points) :
      /\ Status(points[j])
      /\ \E k \in 1..Len(points[j].retrievedDocs) : TitleOf(points[j].retrievedDocs[k]) = title}}

C14_SortContract ==
  LET fps == fingerprints(data, severityWeight, sortBy)
  IN /\ sortBy \in SortKeys
     /\ \A i \in 1..(Len(fps) - 1) :
          LET a == fps[i]
              b == fps[i + 1]
          IN CASE sortBy = "flags" ->
                    \/ a.humanFlags > b.humanFlags
                    \/ a.humanFlags = b.humanFlags /\ a.totalRetrievals >= b.totalRetrievals
               [] sortBy = "poor" ->
                    \/ a.poorLLM > b.poorLLM
                    \/ a.poorLLM = b.poorLLM /\ a.totalRetrievals >= b.totalRetrievals
               [] sortBy = "retrieved" ->
                    \/ a.totalRetrievals > b.totalRetrievals
                    \/ a.totalRetrievals = b.totalRetrievals /\ a.severity >= b.severity
               [] sortBy = "severity" ->
                    \/ a.severity > b.severity
                    \/ a.severity = b.severity /\ a.humanFlags > b.humanFlags
                    \/ /\ a.severity = b.severity /\ a.humanFlags = b.humanFlags
                       /\ a.totalRetrievals >= b.totalRetrievals

\* a tie on the primary key, decided by the tie-break against the order in which the
\* documents were first retrieved
C14_Witness ==
  LET fps == fingerprints(data, severityWeight, sortBy)
  IN /\ sortBy = "flags" /\ lastEvent.kind = "sort"
     /\ Len(fps) = 2
     /\ fps[1].humanFlags = fps[2].humanFlags
     /\ fps[1].totalRetrievals > fps[2].totalRetrievals
     /\ Len(data[1].retrievedDocs) > 0
     /\ TitleOf(data[1].retrievedDocs[1]) = fps[2].title

\* C15 (as stated): a point whose retrievedDocs field is absent is aggregated as a point
\* with an empty retrievedDocs list: the aggregation raises no error and yields the
\* aggregates of the list without that point.
C15_AbsentDocsAsEmpty ==
  LET HasDocs(d) == d.hasRetrievedDocs
  IN /\ ~fingerprintsThrows(data)
     /\ fingerprints(data, severityWeight, sortBy)
          = fingerprints(SelectSeq(data, HasDocs), severityWeight, sortBy)

\* position of a point's mark in hundredths of a pixel: x grows with llmScore, y falls
\* with avgSimilarity
MarkPosition(d) == <<d.llmScore * PlotWidth, (One - d.avgSimilarity) * PlotHeight>>

\* a position lies in the region <<x0, y0, x1, y1>> (pixels), bounds included
InRegion(region, pos) ==
  /\ region[1] * 100 <= pos[1] /\ pos[1] <= region[3] * 100
  /\ region[2] * 100 <= pos[2] /\ pos[2] <= region[4] * 100

C17_PointClickToggles ==
  [][lastEvent'.kind = "point" =>
       \E r \in RunIdsOf(data) :
         /\ lastEvent'.ids = {r}
         /\ ctl'.selectedRunIds =
              IF r \in ctl.selectedRunIds THEN ctl.selectedRunIds \ {r}
              ELSE ctl.selectedRunIds \cup {r}
         /\ \E i \in 1..Len(data) : data[i].runId = r /\ navigatedTo' = data[i].questionId]_vars

\* C18 (as stated): whenever the point list given to the Correlation View or to the
\* Distribution View is empty the view shows no mark and no bar, also when the list
\* became empty after an earlier non-empty render.
C18_EmptyListShowsNoMarks ==
  /\ Len(ScatterData(data, ctl)) = 0 => ScatterMarks(scatter) = 0
  /\ Len(HistogramData(data, ctl)) = 0 => HistBars(hist) = 0

\* C19: for every segment and every label of the fingerprint view, a chunk click emits
\* exactly the ids of the runs of the list the view shows that retrieved that chunk (not
\* the document's full run set), and a document-label click emits exactly the union of
\* the run-id sets of the document's chunks with a null chunk key and a null chunk index;
\* the controller receives what was emitted.
C19_ClickEmitsRunIds ==
  LET given == ChartData(data, ctl)
      shown == fingerprints(given, severityWeight, sortBy)
      AnyPoint(d) == TRUE
  IN /\ \A i \in 1..Len(shown) :
          LET doc == shown[i]
              docRuns == {given[j].runId : j \in {m \in 1..Len(given) :
                            \E k \in 1..Len(given[m].retrievedDocs) :
                              TitleOf(given[m].retrievedDocs[k]) = doc.title}}
              emitted == DocumentClickPayload(doc)
          IN /\ emitted.runIds = docRuns
             /\ emitted.runIds = UNION {RunsRetrieving(given, doc.chunks[k].key, AnyPoint) :
                                          k \in 1..Len(doc.chunks)}
             /\ emitted.chunkKey = NoKey /\ emitted.chunkIndex = NoIndex
             /\ emitted.docTitle = doc.title
             /\ \A k \in 1..Len(doc.chunks) :
                  LET payload == ChunkClickPayload(doc.title, doc.chunks[k])
                  IN /\ payload.runIds = RunsRetrieving(given, doc.chunks[k].key, AnyPoint)
                     /\ payload.runIds \subseteq docRuns
                     /\ payload.chunkKey = doc.chunks[k].key
                     /\ payload.chunkIndex = doc.chunks[k].index
     /\ lastEvent.kind = "document" =>
          (ctl.selectedChunk.key = NoKey /\ ctl.selectedChunk.chunkIndex = NoIndex)
     /\ (lastEvent.kind = "chunk" /\ ctl.viewMode = "highlight") =>
          ctl.selectedRunIds = RunsRetrieving(data, lastEvent.key, AnyPoint)

\* a chunk was clicked whose runs are fewer than the runs of its document
C19_Witness ==
  LET AnyPoint(d) == TRUE
  IN /\ lastEvent.kind = "chunk" /\ ctl.viewMode = "highlight"
     /\ ctl.selectedRunIds = RunsRetrieving(data, lastEvent.key, AnyPoint)
     /\ ctl.selectedRunIds # {}
     /\ \E j \in 1..Len(data) :
          /\ data[j].runId \notin ctl.selectedRunIds
          /\ \E k \in 1..Len(data[j].retrievedDocs) :
               TitleOf(data[j].retrievedDocs[k]) = lastEvent.title

\* C20 (as stated): while a chunk selection is locked in the fingerprint view and no
\* highlight set overrides it, every segment other than the selected one is rendered
\* dimmed, in every document row of the view.
C20_OtherSegmentsDimmed ==
  LET shown == fingerprints(ChartData(data, ctl), severityWeight, sortBy)
      highlighted == ChartHighlightedRunIds(data, ctl)
      locked == /\ activeChunk.active /\ activeChunk.hasChunk
                /\ ctl.selectedChunk.active /\ ctl.selectedChunk.key = activeChunk.key
                /\ \E i \in 1..Len(shown) : \E k \in 1..Len(shown[i].chunks) :
                     shown[i].chunks[k].key = activeChunk.key
      overridden == ctl.viewMode = "highlight" /\ highlighted # {}
  IN (locked /\ ~overridden) =>
       \A i \in 1..Len(shown) : \A k \in 1..Len(shown[i].chunks) :
         shown[i].chunks[k].key # activeChunk.key =>
           SegmentOpacity(activeChunk, shown[i], shown[i].chunks[k], ctl.viewMode, highlighted)
             < 100

\* C21 (as stated): after the close affordance of the fingerprint view no chunk or
\* document is selected in the view, and the shared chunk selection, with the run ids
\* it put into selectedRunIds, is cleared as well.
C21_CloseClearsSelection ==
  lastEvent.kind = "close" =>
    /\ ~activeChunk.active
    /\ ~ctl.selectedChunk.active
    /\ lastEvent.pre.chunk => ctl.selectedRunIds = {}

\* C22 (as stated): for the row width of the view and the index of a shown chunk, the
\* width of the chunk's segment does not increase when the chunkCount of its document
\* increases.
C22_SegmentWidthMonotonic ==
  LET shown == fingerprints(ChartData(data, ctl), severityWeight, sortBy)
      rowWidth == barWidth(containerWidth)
  IN \A i \in 1..Len(shown) : \A k \in 1..Len(shown[i].chunks) :
       \A more \in (shown[i].chunkCount + 1)..MaxChunkCount :
         LeqQ(SegmentWidth(rowWidth, more, shown[i].chunks[k].index),
              SegmentWidth(rowWidth, shown[i].chunkCount, shown[i].chunks[k].index))

\* C23 (as stated): whatever the fingerprint view renders as selected (the ring of a
\* segment, the tint of a row, the detail panel, the dimming of a row's other segments)
\* is the controller's chunk selection; when the controller's chunk selection is null
\* the view shows no selection.
C23_SingleSelectionOwner ==
  LET shown == fingerprints(ChartData(data, ctl), severityWeight, sortBy)
      panel == visibleActiveChunk(activeChunk, ctl.selectedChunk.key)
      owned == ctl.selectedChunk
  IN /\ panel.active =>
          (owned.active /\ owned.docTitle = panel.docTitle /\ owned.key = panel.key)
     /\ \A i \in 1..Len(shown) :
          /\ isDocSelected(activeChunk, shown[i]) =>
               (owned.active /\ owned.key = NoKey /\ owned.docTitle = shown[i].title)
          /\ hasChunkSelected(activeChunk, shown[i]) =>
               (owned.active /\ owned.key # NoKey /\ owned.docTitle = shown[i].title)
          /\ \A k \in 1..Len(shown[i].chunks) :
               isActive(activeChunk, shown[i].chunks[k]) =>
                 (owned.active /\ owned.key = shown[i].chunks[k].key)

\* C24: for a fixed point list, in every reachable state selectedRunIds and the
\* highlight id set contain only run ids that occur in the point list.
C24_IdsWithinPointList ==
  /\ ctl.selectedRunIds \subseteq RunIdsOf(data)
  /\ combinedHighlightIds(data, ctl) \subseteq RunIdsOf(data)
  /\ ChartHighlightedRunIds(data, ctl) \subseteq RunIdsOf(data)

\* ids emitted by a brush whose marks are no longer in the list the view is given,
\* with a score filter contributing further ids to the highlight set
C24_Witness ==
  /\ lastEvent.kind = "brush" /\ ctl.selectedRunIds # {}
  /\ ctl.viewMode = "filter" /\ Len(ScatterData(data, ctl)) = 0
  /\ ctl.scoreFilter.active
  /\ ~(combinedHighlightIds(data, ctl) \subseteq ctl.selectedRunIds)
  /\ ctl.selectedRunIds # RunIdsOf(data)

\* C25: a chunk or document selection and a score filter are never active together.
C25_ChunkAndFilterExclusive == ~(ctl.selectedChunk.active /\ ctl.scoreFilter.active)

\* each of the two displaced the other: a bin click arrived while a chunk was selected
C25_Witness ==
  /\ lastEvent.kind = "bin" /\ lastEvent.pre.chunk
  /\ ctl.scoreFilter.active /\ ~ctl.selectedChunk.active
  /\ ctl.selectedRunIds # {}

\* C26: a switch of the interaction mode leaves selectedRunIds, the score filter and the
\* chunk selection unchanged; switching highlight -> filter -> highlight gives back the
\* controller state it started from, and in highlight mode every view receives the full
\* point list.
C26_ModeSwitchFrame ==
  [][lastEvent'.kind = "mode" =>
       /\ ctl'.viewMode = lastEvent'.title
       /\ ctl'.selectedRunIds = ctl.selectedRunIds
       /\ ctl'.scoreFilter = ctl.scoreFilter
       /\ ctl'.selectedChunk = ctl.selectedChunk
       /\ setViewMode(ctl', ctl.viewMode) = ctl
       /\ ctl'.viewMode = "highlight" =>
            /\ ScatterData(data, ctl') = data
            /\ HistogramData(data, ctl') = data
            /\ ChartData(data, ctl') = data
            /\ Len(data) > 0 => (scatter'.data = data /\ hist'.data = data)]_vars

\* back in highlight mode with a selection and a score filter that, in filter mode,
\* had removed points from the views
C26_Witness ==
  /\ lastEvent.kind = "mode" /\ lastEvent.title = "highlight"
  /\ lastEvent.pre.runs /\ lastEvent.pre.filter
  /\ ctl.viewMode = "highlight"
  /\ ctl.selectedRunIds # {} /\ ctl.scoreFilter.active
  /\ Len(filteredData(data, setViewMode(ctl, "filter"))) < Len(data)
  /\ scatter.data = data

\* the bin ranges whose score filter a point matches, under the predicate of the
\* filtered list and under the predicate of the highlight set
FilterBinsOf(metric, d) ==
  {i \in 1..Len(bins) :
     FilterMatches([active |-> TRUE, metric |-> metric, range |-> BinClickRange(i)], d)}

HighlightBinsOf(metric, d) ==
  {i \in 1..Len(bins) :
     HighlightMatches([active |-> TRUE, metric |-> metric, range |-> BinClickRange(i)], d)}

C28_ChunkCountsOrdered ==
  LET fps == fingerprints(data, severityWeight, sortBy)
      oneQuestionPerRun ==
        \A i \in 1..Len(data), j \in 1..Len(data) :
          data[i].runId = data[j].runId => data[i].questionId = data[j].questionId
  IN oneQuestionPerRun =>
       \A i \in 1..Len(fps) : \A k \in 1..Len(fps[i].chunks) :
         LET chunk == fps[i].chunks[k]
         IN /\ chunk.questions <= chunk.runs
            /\ chunk.runs <= chunk.occurrences
            /\ chunk.runs = Len(chunk.runIds)
            /\ chunk.runs = Cardinality(Range(chunk.runIds))
            /\ \A a \in 1..Len(chunk.runIds), b \in 1..Len(chunk.runIds) :
                 chunk.runIds[a] = chunk.runIds[b] => a = b

\* two runs of one question retrieve the same chunk, one of them more than once
C28_Witness ==
  LET fps == fingerprints(data, severityWeight, sortBy)
  IN /\ Len(data) = 2 /\ data[1].runId # data[2].runId
     /\ \E i \in 1..Len(fps) : \E k \in 1..Len(fps[i].chunks) :
          /\ fps[i].chunks[k].questions = 1
          /\ fps[i].chunks[k].runs = 2
          /\ fps[i].chunks[k].occurrences > 2

\* the (point, retrievedDoc) positions of the list whose title resolves to the document
PairsOf(points, title) ==
  UNION {{<<i, k>> : k \in {m \in 1..Len(points[i].retrievedDocs) :
                                TitleOf(points[i].retrievedDocs[m]) = title}} :
           i \in 1..Len(points)}

RECURSIVE SumOccurrences(_)
SumOccurrences(chunks) ==
  IF chunks = <<>> THEN 0 ELSE Head(chunks).occurrences + SumOccurrences(Tail(chunks))

\* C29: for every document fingerprint totalRetrievals is the sum of occurrences over the
\* document's chunks, which is the number of (point, retrievedDoc) pairs of the input
\* whose title resolves to that document; a point with an empty retrievedDocs list
\* contributes to no fingerprint.
C29_RetrievalsCountPairs ==
  LET fps == fingerprints(data, severityWeight, sortBy)
      Retrieving(d) == Len(d.retrievedDocs) > 0
  IN /\ \A j \in 1..Len(data) : \A k \in 1..Len(data[j].retrievedDocs) :
          \E i \in 1..Len(fps) : fps[i].title = TitleOf(data[j].retrievedDocs[k])
     /\ \A i \in 1..Len(fps) :
          /\ fps[i].totalRetrievals = SumOccurrences(fps[i].chunks)
          /\ fps[i].totalRetrievals = Cardinality(PairsOf(data, fps[i].title))
          /\ fps[i].totalRetrievals > 0
          /\ \A k \in 1..Len(fps[i].chunks) : \A r \in Range(fps[i].chunks[k].runIds) :
               \E j \in 1..Len(data) : data[j].runId = r /\ Retrieving(data[j])

\* one point with an empty retrievedDocs list next to a point that retrieves the same
\* chunk twice
C29_Witness ==
  LET fps == fingerprints(data, severityWeight, sortBy)
  IN /\ \E i \in 1..Len(data) : Len(data[i].retrievedDocs) = 0
     /\ Len(fps) = 1
     /\ fps[1].totalRetrievals = 2 /\ Len(fps[1].chunks) = 1 /\ fps[1].chunks[1].runs = 1

\* C30: after any sequence of toggleRunSelection and clearBucket calls the bucket holds at
\* most two run ids, holds no run id twice, has questionId null exactly when it holds no
\* run id, and every run id it holds was added under the bucket's current questionId; a
\* call that adds a run of another question replaces the bucket by that single run.
C30_BucketInvariant ==
  /\ Len(bucket.runIds) <= 2
  /\ \A a \in 1..Len(bucket.runIds), b \in 1..Len(bucket.runIds) :
       bucket.runIds[a] = bucket.runIds[b] => a = b
  /\ (bucket.questionId = NullQuestion) <=> (bucket.runIds = <<>>)
  /\ \A r \in Range(bucket.runIds) : bucketHistory.addedUnder[r] = bucket.questionId
  /\ (/\ lastEvent.kind = "toggle-run"
      /\ bucketHistory.previous.questionId # NullQuestion
      /\ bucketHistory.previous.questionId # lastEvent.title)
     => \E r \in lastEvent.ids : bucket = [questionId |-> lastEvent.title, runIds |-> <<r>>]

\* a full bucket of one question was replaced by a single run of another question
C30_Witness ==
  /\ lastEvent.kind = "toggle-run"
  /\ Len(bucketHistory.previous.runIds) = 2
  /\ bucketHistory.previous.questionId # bucket.questionId
  /\ Len(bucket.runIds) = 1
  /\ bucketMessage = "switched"

====
